---- MODULE Spec2Model ----
(***************************************************************************)
(* Exec Macro plugin: the macro registry kept in the preference store, the *)
(* handlers of the management dialog (src/config.py) and the menu, the     *)
(* shortcuts and the execution of macros (src/action.py).                  *)
(*                                                                         *)
(* Macro names are modelled by the integers 1..MaxNames, ordered as the    *)
(* names sort.  A source text is a sequence of characters; the word        *)
(* "coding" is one element of such a sequence (it counts as word           *)
(* characters), "\n" is the line break.                                    *)
(***************************************************************************)
EXTENDS Integers, Sequences, FiniteSets, TLC

VARIABLES macros, current, disk, actions, marked, manage, shortcuts,
          file, exported, last, txt, detected, stack, pending

vars == <<macros, current, disk, actions, marked, manage, shortcuts,
          file, exported, last, txt, detected, stack, pending>>

(* ----------------------------- bounds -------------------------------- *)
MaxNames == 2
MaxLines == 3
MaxTriggers == 3

Names == 1..MaxNames

(* ------------------- source texts and get_encoding ------------------- *)

\* Python's None / the empty string: both are falsy; a match of [-\w.]+
\* is never empty, so the empty sequence stands for "no encoding".
None == <<>>

LeadChars == {" ", "\t", "\f"}
GapChars == {" ", "\t"}
SepChars == {":", "="}
NameChars == {"a", "b", "x", "1", "8", "-", ".", "_", "coding"}
BlankEnd == {"#", "\r", "\n"}

RECURSIVE SkipFrom(_, _, _)
\* the index reached by a greedy [class]* that starts at index i
SkipFrom(line, i, class) ==
  IF i <= Len(line) /\ line[i] \in class THEN SkipFrom(line, i + 1, class) ELSE i

\* the positions of "coding" at which the rest of decl_re matches
DeclAt(line) ==
  LET h == SkipFrom(line, 1, LeadChars) IN
  IF h > Len(line) \/ line[h] # "#" THEN {}
  ELSE {j \in (h + 1)..Len(line) :
          /\ line[j] = "coding"
          /\ j + 1 <= Len(line)
          /\ line[j + 1] \in SepChars
          /\ LET n == SkipFrom(line, j + 2, GapChars) IN
               n <= Len(line) /\ line[n] \in NameChars}

\* decl_re.match(line): group(1) of the match, None without a match; the
\* greedy .* takes the last "coding" that lets the rest match
decl_re(line) ==
  LET js == DeclAt(line) IN
  IF js = {} THEN None
  ELSE LET j == CHOOSE k \in js : \A m \in js : m <= k
           n == SkipFrom(line, j + 2, GapChars)
           e == SkipFrom(line, n, NameChars)
       IN SubSeq(line, n, e - 1)

\* blank_re.match(line) as a boolean
blank_re(line) ==
  LET h == SkipFrom(line, 1, LeadChars) IN
  h > Len(line) \/ line[h] \in BlankEnd

RECURSIVE SplitFrom(_, _, _, _)
SplitFrom(t, i, cur, acc) ==
  IF i > Len(t) THEN (IF cur = <<>> THEN acc ELSE Append(acc, cur))
  ELSE IF t[i] = "\n" THEN SplitFrom(t, i + 1, <<>>, Append(acc, cur))
  ELSE SplitFrom(t, i + 1, Append(cur, t[i]), acc)

\* txt.splitlines()
splitlines(t) == SplitFrom(t, 1, <<>>, <<>>)

get_encoding_unguarded(t) ==
  LET lines == splitlines(t) IN
  IF Len(lines) < 1 THEN None
  ELSE IF decl_re(lines[1]) # None THEN decl_re(lines[1])
  ELSE IF Len(lines) < 2 THEN None
  ELSE decl_re(lines[2])

get_encoding(t) ==
  LET lines == splitlines(t) IN
  IF Len(lines) < 1 THEN None
  ELSE IF decl_re(lines[1]) # None THEN decl_re(lines[1])
  ELSE IF Len(lines) < 2 \/ ~blank_re(lines[1]) THEN None
  ELSE IF decl_re(lines[2]) # None THEN decl_re(lines[2])
  ELSE None

(* --------------------------- macro records --------------------------- *)

\* prefs.defaults (config.py 35-47): the one macro of a fresh installation
SampleDialog == 1
SampleProgram == <<"x", "\n">>
DefaultRecord ==
  [name |-> SampleDialog, documentation |-> "Macro to display simple dialog.",
   program |-> SampleProgram, filename |-> ""]

PlainProgram == <<"x", "(", "\n">>
CodedProgram == <<"#", " ", "coding", ":", " ", "a", "\n", "x", "\n">>

\* what the editor's widgets may hold when a button is clicked
EditorForms ==
  { [macrofile |-> "", execfromfile |-> FALSE, documentation |-> "doc",
     program |-> PlainProgram],
    [macrofile |-> "", execfromfile |-> FALSE, documentation |-> "doc",
     program |-> CodedProgram],
    [macrofile |-> "macro.py", execfromfile |-> TRUE, documentation |-> "doc",
     program |-> None],
    [macrofile |-> "", execfromfile |-> TRUE, documentation |-> "doc",
     program |-> PlainProgram] }

\* the forms that are saved: two of them, to keep the registries few
SavedForms == {f \in EditorForms : f.program = CodedProgram \/ f.macrofile # ""}

\* the record save_button_clicked builds from the widgets
EditorRecord(name, form) ==
  [name |-> name, macrofile |-> form.macrofile,
   execfromfile |-> form.execfromfile,
   documentation |-> form.documentation, program |-> form.program]

\* records an imported document may carry: a complete one, and one without
\* the documentation field (the document is any JSON the user picks)
ImportedRecords(name) ==
  { [name |-> name, macrofile |-> "", execfromfile |-> FALSE,
     documentation |-> "imported", program |-> PlainProgram],
    [name |-> name, program |-> PlainProgram] }

RecordsOf(name) ==
  {EditorRecord(name, f) : f \in SavedForms} \cup ImportedRecords(name)
    \cup (IF name = SampleDialog THEN {DefaultRecord} ELSE {})

(* ------------- the name -> record mapping (a Python dict) ------------ *)
\* A dict is a collection of <<key, value>> entries.

Keys(d) == {e[1] : e \in d}

\* d.get(k, None) / d[k] for a key that is present
DictGet(d, k) == (CHOOSE e \in d : e[1] = k)[2]

\* d[k] = v
DictSetItemDup(d, k, v) == d \cup {<<k, v>>}
DictSetItem(d, k, v) == {e \in d : e[1] # k} \cup {<<k, v>>}

\* del d[k]
DictDelItem(d, k) == {e \in d : e[1] # k}

\* d.update(m)
DictUpdateKeep(d, m) == d \cup {e \in m : e[1] \notin Keys(d)}
DictUpdate(d, m) == {e \in d : e[1] \notin Keys(m)} \cup m

UniqueKeys(d) == \A e1 \in d, e2 \in d : e1[1] = e2[1] => e1 = e2

\* every mapping made of some of the entries
Mappings(entries) == {d \in SUBSET entries : UniqueKeys(d)}

RECURSIVE SortedSeq(_)
\* sorted(S) for a set of names
SortedSeq(S) ==
  IF S = {} THEN <<>>
  ELSE LET m == CHOOSE x \in S : \A y \in S : x <= y
       IN <<m>> \o SortedSeq(S \ {m})

(* ----------------------- json.dump / json.load ----------------------- *)
\* A document is the sequence of its members in the order written; a
\* member is <<key, value>>, a scalar is tagged with its JSON type.

FieldOrder ==
  <<"documentation", "execfromfile", "filename", "macrofile", "name", "program">>

JsonScalar(field, v) ==
  IF field = "execfromfile" THEN <<IF v THEN "true" ELSE "false">>
  ELSE <<"string", v>>

PyScalar(j) ==
  IF j[1] = "true" THEN TRUE ELSE IF j[1] = "false" THEN FALSE ELSE j[2]

\* one record as a JSON object, sort_keys=True
JsonObject(rec) ==
  LET present == SelectSeq(FieldOrder, LAMBDA f : f \in DOMAIN rec)
  IN [i \in 1..Len(present) |-> <<present[i], JsonScalar(present[i], rec[present[i]])>>]

\* json.dump(prefs['macros'], fd, sort_keys=True, indent=4)
JsonDumpNoProgram(d) ==
  LET ks == SortedSeq(Keys(d))
      cut(rec) == [f \in DOMAIN rec \ {"program"} |-> rec[f]]
  IN [i \in 1..Len(ks) |-> <<ks[i], JsonObject(cut(DictGet(d, ks[i])))>>]
JsonDump(d) ==
  LET ks == SortedSeq(Keys(d))
  IN [i \in 1..Len(ks) |-> <<ks[i], JsonObject(DictGet(d, ks[i]))>>]

PyObject(obj) ==
  LET fields == {obj[i][1] : i \in 1..Len(obj)}
      at(f) == CHOOSE i \in 1..Len(obj) : obj[i][1] = f
  IN [f \in fields |-> PyScalar(obj[at(f)][2])]

\* json.load(fd) of a well-formed document
JsonLoad(members) ==
  {<<members[i][1], PyObject(members[i][2])>> : i \in 1..Len(members)}

\* a file that is no JSON object (json.load or viewkeys() raises)
Malformed == [ok |-> FALSE, members |-> <<>>]
Document(d) == [ok |-> TRUE, members |-> JsonDump(d)]

\* the documents a user may pick for import besides an exported one
ImportedEntries == UNION {{<<n, r>> : r \in ImportedRecords(n)} : n \in Names}
ExternalDocs == {Document(m) : m \in Mappings(ImportedEntries)} \cup {Malformed}

(* ------------------------ menu and shortcuts ------------------------- *)

Prefix == "Exec Macro : menu action : "
\* the menu text of the "Manage macros" action, among the names
ManageMacros == 0
\* menu_action_unique_name(self, name)
menu_action_unique_name(name) == <<Prefix, name>>
\* a shortcut of the host application, not of this plugin
HostShortcut == <<"calibre", 0>>

delete_orphan_shortcuts_none(sc, acts) == sc
delete_orphan_shortcuts(sc, acts) ==
  LET to_del == {s \in sc : s[1] = Prefix}
      new_sc == {menu_action_unique_name(n) : n \in acts}
                  \cup {menu_action_unique_name(ManageMacros)}
  IN sc \ (to_del \ new_sc)

\* mark_current_macro: the actions whose icon is shown
mark_current_macro(acts, cur) == {n \in acts : n = cur}

\* rebuild_menu on registry reg: the menu, the shortcuts, and whether the
\* lookup of 'documentation' raised (the loop then stops where it is: the
\* actions created so far stay, with Qt's default of a visible icon, and
\* neither the "Manage macros" action nor the orphan sweep is reached)
rebuild_menu(reg, cur, sc) ==
  LET names == SortedSeq(Keys(reg))
      bad == {i \in 1..Len(names) :
                "documentation" \notin DOMAIN DictGet(reg, names[i])}
  IN IF bad # {}
     THEN LET stop == CHOOSE i \in bad : \A j \in bad : i <= j
              made == {names[j] : j \in 1..(stop - 1)}
          IN [actions |-> made, marked |-> made, manage |-> FALSE,
              shortcuts |-> sc \cup {menu_action_unique_name(n) : n \in made},
              raised |-> TRUE]
     ELSE LET acts == Keys(reg)
              all == sc \cup {menu_action_unique_name(n) : n \in acts}
                        \cup {menu_action_unique_name(ManageMacros)}
          IN [actions |-> acts, marked |-> mark_current_macro(acts, cur),
              manage |-> TRUE,
              shortcuts |-> delete_orphan_shortcuts(all, acts),
              raised |-> FALSE]

\* prefs.commit(): the durable store takes the in-memory values
commit(reg, cur) == [macros |-> reg, current |-> cur]

(* ------------------------------ state -------------------------------- *)
\* macros, current: prefs['macros'] and prefs['current_macro'] in memory
\* disk: what the preference store last wrote
\* actions, marked, manage: self.actions, the actions whose icon is shown,
\*   and whether the menu holds the "Manage macros" action
\* shortcuts: gui.keyboard.shortcuts
\* file, exported: the export file, and the registry it was written from
\* last: the handler that ran last: what it did, in order
\* txt, detected: a source text and the result of get_encoding on it
\* stack: the executions that have begun and not returned, the innermost
\*   last;  pending: the user's triggers waiting in the UI event queue

\*   op, name: the handler and the macro name it was given
\*   events: the calls it made, in order;  detail: a dialog's detail list,
\*     at the execute button the text of the editor that was run
\*   arg: the entries it was to store;  had: the keys present when it began
\*   failure: what failed in it;  raised: an exception left the handler
Ran(op, name, events, detail, arg, had, failure, raised) ==
  [op |-> op, name |-> name, events |-> events, detail |-> detail,
   arg |-> arg, had |-> had, failure |-> failure, raised |-> raised]

menuvars == <<actions, marked, manage, shortcuts>>
encvars == <<txt, detected>>
pumpvars == <<stack, pending>>
filevars == <<file, exported>>

SetMenu(m) ==
  /\ actions' = m.actions
  /\ marked' = m.marked
  /\ manage' = m.manage
  /\ shortcuts' = m.shortcuts

\* genesis(): the menu is built once from the stored registry
Genesis(reg, cur) ==
  LET m == rebuild_menu(reg, cur, {HostShortcut}) IN
  /\ macros = reg
  /\ current = cur
  /\ disk = commit(reg, cur)
  /\ actions = m.actions
  /\ marked = m.marked
  /\ manage = m.manage
  /\ shortcuts = m.shortcuts
  /\ file = [written |-> FALSE, doc |-> Malformed]
  /\ exported = {}
  /\ last = Ran("genesis", ManageMacros, <<"rebuild_menu">>, <<>>, {}, {}, "none", FALSE)
  /\ txt = <<>>
  /\ detected = <<>>
  /\ stack = <<>>
  /\ pending = <<>>

\* a fresh installation: prefs.defaults
Init == Genesis({<<SampleDialog, DefaultRecord>>}, SampleDialog)

(* --------------------- management dialog handlers -------------------- *)

SaveNoCommit(name, form) ==
  LET reg == DictSetItem(macros, name, EditorRecord(name, form))
      m == rebuild_menu(reg, current, shortcuts)
  IN /\ macros' = reg
     /\ SetMenu(m)
     /\ disk' = disk
     /\ last' = Ran("save", name, <<"setitem", "rebuild_menu">>,
                    <<>>, {<<name, EditorRecord(name, form)>>}, Keys(macros),
                    IF m.raised THEN "menu" ELSE "none", m.raised)
     /\ UNCHANGED <<current, filevars, encvars, pumpvars>>

\* save_button_clicked; name is function_name.currentText()
Save(name, form) ==
  LET reg == DictSetItem(macros, name, EditorRecord(name, form))
      m == rebuild_menu(reg, current, shortcuts)
  IN /\ macros' = reg
     /\ SetMenu(m)
     /\ disk' = IF m.raised THEN disk ELSE commit(reg, current)
     /\ last' = Ran("save", name,
                    IF m.raised THEN <<"setitem", "rebuild_menu">>
                    ELSE <<"setitem", "rebuild_menu", "commit">>,
                    <<>>, {<<name, EditorRecord(name, form)>>}, Keys(macros),
                    IF m.raised THEN "menu" ELSE "none", m.raised)
     /\ UNCHANGED <<current, filevars, encvars, pumpvars>>

\* delete_button_clicked, the name is a key: lines 313-318
DeleteDefined(name) ==
  LET reg == DictDelItem(macros, name)
      m == rebuild_menu(reg, current, shortcuts)
  IN /\ macros' = reg
     /\ disk' = commit(reg, current)
     /\ SetMenu(m)
     /\ last' = Ran("delete", name, <<"delitem", "commit", "rebuild_menu">>,
                    <<>>, {}, {}, IF m.raised THEN "menu" ELSE "none", m.raised)
     /\ UNCHANGED <<current, filevars, encvars, pumpvars>>

\* delete_button_clicked, the name is no key: lines 320-321
DeleteUndefined(name) ==
  /\ last' = Ran("delete", name, <<"error_dialog(not defined)">>,
                 <<>>, {}, {}, "none", FALSE)
  /\ UNCHANGED <<macros, current, disk, menuvars, filevars, encvars, pumpvars>>

DeleteUnchecked(name) == DeleteDefined(name)
\* delete_button_clicked
Delete(name) ==
  IF name \in Keys(macros) THEN DeleteDefined(name) ELSE DeleteUndefined(name)

\* lines 210-216: the registry after the question dialog
MergeUnasked(reg, new_macros, answer) == DictUpdate(reg, new_macros)
MergeIfConfirmed(reg, new_macros, answer) ==
  IF answer THEN DictUpdate(reg, new_macros) ELSE reg

ImportDoc(doc, answer) ==
  IF ~doc.ok
  THEN /\ last' = Ran("import", ManageMacros,
                      <<"json.load", "error_dialog(traceback)">>, <<>>, {}, {},
                      "json", FALSE)
       /\ UNCHANGED <<macros, current, disk, menuvars, filevars, encvars, pumpvars>>
  ELSE
    LET new_macros == JsonLoad(doc.members)
        overwrite == SortedSeq(Keys(new_macros) \cap Keys(macros))
    IN IF ~answer
       THEN /\ macros' = MergeIfConfirmed(macros, new_macros, answer)
            /\ last' = Ran("import", ManageMacros,
                           <<"json.load", "question_dialog">>, overwrite,
                           {}, Keys(macros), "none", FALSE)
            /\ UNCHANGED <<current, disk, menuvars, filevars, encvars, pumpvars>>
       ELSE
         LET reg == MergeIfConfirmed(macros, new_macros, answer)
             m == rebuild_menu(reg, current, shortcuts)
         IN /\ macros' = reg
            /\ SetMenu(m)
            /\ disk' = IF m.raised THEN disk ELSE commit(reg, current)
            /\ last' = Ran("import", ManageMacros,
                 <<"json.load", "question_dialog", "update", "rebuild_menu">>
                   \o (IF m.raised THEN <<"error_dialog(traceback)">>
                       ELSE <<"commit", "info_dialog">>),
                 overwrite, new_macros, Keys(macros),
                 IF m.raised THEN "menu" ELSE "none", FALSE)
            /\ UNCHANGED <<current, filevars, encvars, pumpvars>>

\* import of a document from elsewhere
Import(doc, answer) == ImportDoc(doc, answer)

\* import of the file the export wrote
ImportExported(answer) ==
  /\ file.written
  /\ ImportDoc(file.doc, answer)

\* the file chooser of import or export closed without a file
ChooserCancelled(op) ==
  /\ last' = Ran(op, ManageMacros, <<>>, <<>>, {}, {}, "none", FALSE)
  /\ UNCHANGED <<macros, current, disk, menuvars, filevars, encvars, pumpvars>>

\* export_button_clicked; writable: open(filename, 'w') succeeds
Export(writable) ==
  /\ IF writable
     THEN /\ file' = [written |-> TRUE, doc |-> Document(macros)]
          /\ exported' = macros
          /\ last' = Ran("export", ManageMacros, <<"json.dump", "info_dialog">>,
                         <<>>, {}, {}, "none", FALSE)
     ELSE /\ UNCHANGED filevars
          /\ last' = Ran("export", ManageMacros, <<"error_dialog(traceback)">>,
                         <<>>, {}, {}, "io", FALSE)
  /\ UNCHANGED <<macros, current, disk, menuvars, encvars, pumpvars>>

(* ------------------------- executing a macro ------------------------- *)

\* how a run may fail: reading the file ("io"), program.encode(encoding)
\* ("encoding"), the program itself ("program")
FileFailures == {"none", "io", "program"}
TextFailures(program) ==
  {"none", "program"} \cup (IF get_encoding(program) # None THEN {"encoding"} ELSE {})

RunTextAsIs(program, fail) ==
  [events |-> <<"get_encoding", "exec">>, failed |-> fail = "program"]
\* action.py 95-99, config.py 181-188: get_encoding, encode, execute
RunText(program, fail) ==
  LET encoding == get_encoding(program)
      pre == IF encoding # None THEN <<"get_encoding", "encode">>
             ELSE <<"get_encoding">>
  IN IF encoding # None /\ fail = "encoding" THEN [events |-> pre, failed |-> TRUE]
     ELSE [events |-> Append(pre, "exec"), failed |-> fail = "program"]

\* action.py 92-93: open the file and execute it
RunFile(fail) ==
  IF fail = "io" THEN [events |-> <<"open">>, failed |-> TRUE]
  ELSE [events |-> <<"open", "exec">>, failed |-> fail = "program"]

\* action.py 100-104: the except clause of execute_macro
ReportNothing == <<>>
ReportFailure == <<"log.exception", "error_dialog(log)">>

\* config.py 189-197: the except clause of execute_button_clicked; the
\* log's QtLogStream hands the text to the dialog's log view
ShowFailure == <<"log.exception", "log_view">>

\* action.py 84-86: the record to run, as a set: empty when the name is no
\* key or the record is falsy
LookupOrSample(reg, name) ==
  IF name \in Keys(reg) THEN {DictGet(reg, name)} ELSE {DefaultRecord}
Lookup(reg, name) ==
  IF name \in Keys(reg) /\ DOMAIN DictGet(reg, name) # {}
  THEN {DictGet(reg, name)} ELSE {}

\* action.py 90-99: what the try block does with the record
RunMacro(macro, fail) ==
  IF "execfromfile" \in DOMAIN macro /\ macro.execfromfile
  THEN RunFile(fail)
  ELSE IF "program" \notin DOMAIN macro THEN [events |-> <<>>, failed |-> TRUE]
  ELSE IF macro.program # None THEN RunText(macro.program, fail)
  ELSE [events |-> <<>>, failed |-> FALSE]

Failures(macro) ==
  IF "execfromfile" \in DOMAIN macro /\ macro.execfromfile THEN FileFailures
  ELSE IF "program" \notin DOMAIN macro THEN {"record"}
  ELSE IF macro.program # None THEN TextFailures(macro.program)
  ELSE {"none"}

\* execute_macro(name); flush: whether the store writes itself out when
\* prefs['current_macro'] is assigned (the store's choice, not this code's)
execute_macro(op, name, flush, fail) ==
  LET found == Lookup(macros, name) IN
  /\ current' = name
  /\ marked' = IF name # current THEN mark_current_macro(actions, name) ELSE marked
  /\ disk' = IF name # current /\ flush THEN commit(macros, name) ELSE disk
  /\ IF found = {}
     THEN last' = Ran(op, name, <<>>, <<>>, {}, {}, "none", FALSE)
     ELSE LET macro == CHOOSE r \in found : TRUE
              run == RunMacro(macro, fail)
          IN /\ fail \in Failures(macro)
             /\ last' = Ran(op, name,
                            run.events \o (IF run.failed THEN ReportFailure ELSE <<>>),
                            <<>>, {}, {}, IF run.failed THEN fail ELSE "none", FALSE)
  /\ UNCHANGED <<macros, actions, manage, shortcuts, filevars, encvars, pumpvars>>

\* a macro's menu action is triggered
MenuAction(name, flush, fail) ==
  /\ name \in actions
  /\ name = current => ~flush
  /\ name \notin Keys(macros) => fail = "none"
  /\ execute_macro("menu", name, flush, fail)

\* execute_current_macro: the top-level action is triggered
execute_current_macro(fail) ==
  /\ current \notin Keys(macros) => fail = "none"
  /\ execute_macro("top", current, FALSE, fail)

\* the text the file named in the dialog holds
FileProgram == CodedProgram

\* execute_button_clicked on the dialog's widgets; picked: the file chooser
\* of filebrowse_button_clicked returned a file
execute_button_clicked(form, picked, fail) ==
  LET named == form.macrofile # "" \/ picked
      load == IF ~form.execfromfile THEN <<>>
              ELSE IF ~named THEN <<"choose_files">>
              ELSE (IF form.macrofile = "" THEN <<"choose_files">> ELSE <<>>)
                     \o (IF fail = "io" THEN <<"open", "error_dialog(traceback)">>
                         ELSE <<"open", "setPlainText", "info_dialog">>)
      loaded == form.execfromfile /\ named /\ fail # "io"
      program == IF loaded THEN FileProgram ELSE form.program
      run == RunText(program, fail)
  IN /\ fail \in TextFailures(program) \cup
                   (IF form.execfromfile /\ named THEN {"io"} ELSE {})
     /\ form.macrofile # "" => ~picked
     /\ last' = Ran("button", ManageMacros,
                    load \o run.events \o (IF run.failed THEN ShowFailure ELSE <<>>),
                    program, {}, {}, fail, FALSE)
     /\ UNCHANGED <<macros, current, disk, menuvars, filevars, encvars, pumpvars>>

(* --------------------------- specification --------------------------- *)

Failure == {"none", "io", "encoding", "program", "record"}

Next ==
  \/ \E name \in Names, form \in SavedForms : Save(name, form)
  \/ \E name \in Names : Delete(name)
  \/ \E doc \in ExternalDocs, answer \in BOOLEAN : Import(doc, answer)
  \/ \E op \in {"import", "export"} : ChooserCancelled(op)
  \/ \E name \in Names, flush \in BOOLEAN, fail \in Failure :
       MenuAction(name, flush, fail)
  \/ \E fail \in Failure : execute_current_macro(fail)
  \/ \E form \in EditorForms, picked \in BOOLEAN, fail \in Failure :
       execute_button_clicked(form, picked, fail)

Spec == Init /\ [][Next]_vars

(* ------------- get_encoding on texts typed line by line -------------- *)

\* lines to type: blank, comment, code, declarations in several shapes
SampleLines ==
  { <<>>,
    <<" ">>,
    <<"#">>,
    <<"\t", "#", "x">>,
    <<"x">>,
    <<"#", " ", "coding", ":", " ", "a", "-", "1">>,
    <<" ", "#", "x", "coding", "=", "b">>,
    <<"x", "#", "coding", ":", "a">>,
    <<"#", "coding", ":", " ">>,
    <<"#", "coding", ":", "a", " ", "coding", "=", "\t", "b", "(">>,
    <<"#", "coding", " ", "a">>,
    <<"coding", ":", "a">> }

Lines(t) == Len(splitlines(t))

\* one more line is typed, with or without its line break
TypeLine(line, nl) ==
  /\ IF txt = <<>> THEN TRUE ELSE txt[Len(txt)] = "\n"
  /\ Lines(txt) < MaxLines
  /\ txt' = txt \o line \o (IF nl THEN <<"\n">> ELSE <<>>)
  /\ detected' = <<>>
  /\ UNCHANGED <<macros, current, disk, menuvars, filevars, last, pumpvars>>

\* get_encoding is called on the text
Detect ==
  /\ detected = <<>>
  /\ detected' = <<get_encoding(txt)>>
  /\ UNCHANGED <<macros, current, disk, menuvars, filevars, last, txt, pumpvars>>

NextEnc ==
  \/ \E line \in SampleLines, nl \in BOOLEAN : TypeLine(line, nl)
  \/ Detect

SpecEnc == Init /\ [][NextEnc]_vars

(* ------------------ export, then import of the file ------------------ *)

\* the registries a session may start from: genesis must not raise
GoodRecords(name) == {r \in RecordsOf(name) : "documentation" \in DOMAIN r}

GoodEntries == UNION {{<<n, r>> : r \in GoodRecords(n)} : n \in Names}

InitRT ==
  \E reg \in Mappings(GoodEntries) : \E cur \in Names : Genesis(reg, cur)

NextRT ==
  \/ \E writable \in BOOLEAN : Export(writable)
  \/ \E name \in Names : Delete(name)
  \/ \E answer \in BOOLEAN : ImportExported(answer)

SpecRT == InitRT /\ [][NextRT]_vars

(* -------- executions in progress and the pumped event queue ---------- *)

\* Handlers run on the UI thread, called by the event loop with the user's
\* triggers in their order.  An execution is followed here step by step:
\* it begins, its program may log, it returns or raises.  The log of
\* execute_button_clicked has a QtLogStream whose html_log signal is
\* connected to log_outputted, and log_outputted ends with
\* QApplication.processEvents(): the triggers that wait are handled there,
\* inside the execution that logged.  The log of execute_macro has no such
\* stream: what its program logs is handled in no callback of the plugin.

\* the triggers: the execute button of the (non-modal) dialog, and the
\* menu actions
ButtonTrigger == [op |-> "button", name |-> ManageMacros]
MenuTrigger(name) == [op |-> "menu", name |-> name]
Triggers == {ButtonTrigger} \cup {MenuTrigger(n) : n \in actions}

\* an execution that has begun; pc: "exec" in the try block, "except" in
\* the except clause;  pump: it is inside processEvents of log_outputted
Frame(ev) == [op |-> ev.op, name |-> ev.name, pc |-> "exec", pump |-> FALSE]
Top == stack[Len(stack)]
SetTop(f) == [stack EXCEPT ![Len(stack)] = f]

EnterGuarded(stk, frame) == IF stk = <<>> THEN <<frame>> ELSE stk
\* the slot begins above whatever is in progress: config.py 171-172 and
\* action.py 79-90 look at no execution in progress
Enter(stk, frame) == Append(stk, frame)

\* the slot of the first waiting trigger is called: execute_button_clicked
\* up to the try block, or execute_macro up to its try block
Call(ev, flush) ==
  /\ pending' = Tail(pending)
  /\ IF ev.op = "button"
     THEN /\ stack' = Enter(stack, Frame(ev))
          /\ UNCHANGED <<current, marked, disk>>
     ELSE /\ current' = ev.name
          /\ marked' = IF ev.name # current
                       THEN mark_current_macro(actions, ev.name) ELSE marked
          /\ disk' = IF ev.name # current /\ flush
                     THEN commit(macros, ev.name) ELSE disk
          /\ stack' = IF Lookup(macros, ev.name) = {} THEN stack
                      ELSE Enter(stack, Frame(ev))
  /\ UNCHANGED <<macros, actions, manage, shortcuts, filevars, encvars, last>>

\* the user clicks while the UI thread may be busy: the trigger waits
UserTrigger(ev) ==
  /\ Len(pending) + Len(stack) < MaxTriggers
  /\ pending' = Append(pending, ev)
  /\ UNCHANGED <<macros, current, disk, menuvars, filevars, encvars, last, stack>>

\* the host's event loop, nothing in progress
EventLoop(flush) ==
  /\ stack = <<>>
  /\ pending # <<>>
  /\ Call(Head(pending), flush)

\* the program of an execute button run calls log: QtLogStream.prints
\* emits html_log, log_outputted runs up to QApplication.processEvents()
log_outputted ==
  /\ stack # <<>>
  /\ Top.op = "button"
  /\ Top.pc = "exec"
  /\ ~Top.pump
  /\ stack' = SetTop([Top EXCEPT !.pump = TRUE])
  /\ UNCHANGED <<macros, current, disk, menuvars, filevars, encvars, last, pending>>

\* processEvents handles a waiting trigger
processEvents(flush) ==
  /\ stack # <<>>
  /\ Top.pump
  /\ pending # <<>>
  /\ Call(Head(pending), flush)

\* processEvents returns once nothing waits; log_outputted returns
PumpReturns ==
  /\ stack # <<>>
  /\ Top.pump
  /\ pending = <<>>
  /\ stack' = SetTop([Top EXCEPT !.pump = FALSE])
  /\ UNCHANGED <<macros, current, disk, menuvars, filevars, encvars, last, pending>>

\* the try block raises: log.exception, which at the execute button runs
\* log_outputted again (config.py 190), in execute_macro is followed by
\* the error dialog (action.py 101-104)
Raise ==
  /\ stack # <<>>
  /\ Top.pc = "exec"
  /\ ~Top.pump
  /\ stack' = SetTop([Top EXCEPT !.pc = "except", !.pump = (Top.op = "button")])
  /\ UNCHANGED <<macros, current, disk, menuvars, filevars, encvars, last, pending>>

\* the slot returns
Return ==
  /\ stack # <<>>
  /\ ~Top.pump
  /\ stack' = SubSeq(stack, 1, Len(stack) - 1)
  /\ UNCHANGED <<macros, current, disk, menuvars, filevars, encvars, last, pending>>

\* the stored current macro name may be any name
InitPump == \E cur \in Names : Genesis({<<SampleDialog, DefaultRecord>>}, cur)

NextPump ==
  \/ \E ev \in Triggers : UserTrigger(ev)
  \/ \E flush \in BOOLEAN : EventLoop(flush)
  \/ log_outputted
  \/ \E flush \in BOOLEAN : processEvents(flush)
  \/ PumpReturns
  \/ Raise
  \/ Return

SpecPump == InitPump /\ [][NextPump]_vars

(* ------------------------------ claims ------------------------------- *)

\* a comes before b in the sequence ev
Before(ev, a, b) ==
  \E i \in 1..Len(ev), j \in 1..Len(ev) : i < j /\ ev[i] = a /\ ev[j] = b

Has(ev, a) == \E i \in 1..Len(ev) : ev[i] = a

Declined == last.op = "import" /\ last.events = <<"json.load", "question_dialog">>
Accepted == last.op = "import" /\ Has(last.events, "update")

\* C1: an import the user declines leaves the registry in memory, the
\* durable store, the current macro name and the menu as they were, and an
\* import changes the registry only after the question dialog was asked.
C1_DeclinedImportChangesNothing ==
  [][/\ Declined' =>
          /\ macros' = macros
          /\ disk' = disk
          /\ current' = current
          /\ menuvars' = menuvars
     /\ (last'.op = "import" /\ macros' # macros) =>
          Before(last'.events, "question_dialog", "update")]_vars

C1_Witness == Declined /\ last.detail # <<>> /\ Cardinality(macros) >= 2

\* C2: an accepted import of mapping M into registry R leaves the keys of
\* R and M, every name of M with M's record, every other name of R with
\* R's record.
C2_AcceptedImportIsUnion ==
  [][Accepted' =>
       LET M == last'.arg IN
       /\ UniqueKeys(macros')
       /\ Keys(macros') = Keys(macros) \cup Keys(M)
       /\ \A k \in Keys(M) : DictGet(macros', k) = DictGet(M, k)
       /\ \A k \in Keys(macros) \ Keys(M) :
            DictGet(macros', k) = DictGet(macros, k)]_vars

C2_Witness ==
  /\ Accepted
  /\ last.detail # <<>>
  /\ Keys(macros) \ Keys(last.arg) # {}

Executed == last.op \in {"menu", "top", "button"}

\* C3 as stated: at both call sites a failure of the execution is logged
\* and shown in an error dialog whose detail is the log, and does not
\* leave the handler.
C3_EveryCallSiteShowsErrorDialog ==
  (Executed /\ last.failure # "none") =>
     /\ Before(last.events, "log.exception", "error_dialog(log)")
     /\ ~last.raised

\* C3 as amended: from the menu and the top-level action the failure is
\* logged and shown in an error dialog with the log; at the execute button
\* a failing encode or program is logged and shown in the dialog's log
\* view, without an error dialog; a file that cannot be loaded there gets
\* the load handler's error dialog with the traceback, and the editor's
\* text is executed all the same.  No failure leaves the handler.
C3_FailureReportedPerCallSite ==
  (Executed /\ last.failure # "none") =>
     /\ ~last.raised
     /\ last.op \in {"menu", "top"} =>
          Before(last.events, "log.exception", "error_dialog(log)")
     /\ (last.op = "button" /\ last.failure # "io") =>
          /\ Before(last.events, "log.exception", "log_view")
          /\ ~Has(last.events, "error_dialog(log)")
     /\ (last.op = "button" /\ last.failure = "io") =>
          /\ Before(last.events, "error_dialog(traceback)", "exec")
          /\ ~Has(last.events, "log.exception")

C3_Witness ==
  /\ last.op = "button"
  /\ last.failure = "program"
  /\ Has(last.events, "log_view")

\* the words of C4
FirstMark(line) == SelectSeq(line, LAMBDA c : c \notin LeadChars)
BlankOrComment(line) == FirstMark(line) = <<>> \/ FirstMark(line)[1] = "#"
Declares(line) == decl_re(line) # None

\* C4: get_encoding returns none for a text of no lines, line 1's name
\* when line 1 declares one, else line 2's name when line 1 is blank or a
\* comment and line 2 declares one, and none otherwise; so line 2 does not
\* count after a line 1 of code, and no line after line 2 counts.
C4_EncodingFromFirstTwoLines ==
  detected # <<>> =>
    LET lines == splitlines(txt)
        found == detected[1]
    IN /\ Len(lines) = 0 => found = None
       /\ (Len(lines) >= 1 /\ Declares(lines[1])) => found = decl_re(lines[1])
       /\ (Len(lines) >= 2 /\ ~Declares(lines[1]) /\ BlankOrComment(lines[1])
             /\ Declares(lines[2])) => found = decl_re(lines[2])
       /\ (Len(lines) >= 1 /\ ~Declares(lines[1])
             /\ (Len(lines) < 2 \/ ~BlankOrComment(lines[1]) \/ ~Declares(lines[2])))
            => found = None

C4_Witness ==
  /\ detected # <<>>
  /\ Lines(txt) = 3
  /\ ~Declares(splitlines(txt)[1])
  /\ detected[1] = <<"b">>
  /\ decl_re(splitlines(txt)[3]) = <<"a", "-", "1">>

\* C5: deleting a name that is no key leaves the registry and the durable
\* store as they are, shows the "not defined" error dialog and raises
\* nothing.
C5_DeleteOfUnknownName ==
  [][(last'.op = "delete" /\ last'.name \notin Keys(macros)) =>
       /\ macros' = macros
       /\ disk' = disk
       /\ last'.events = <<"error_dialog(not defined)">>
       /\ ~last'.raised]_vars

C5_Witness ==
  /\ last.op = "delete"
  /\ last.events = <<"error_dialog(not defined)">>
  /\ macros # {}

\* C6: a save puts the saved record under its name, in place of the entry
\* the name had, and leaves every other entry alone; no name is the key of
\* two entries of the registry.
C6_SaveReplacesAndKeysUnique ==
  [][/\ UniqueKeys(macros')
     /\ last'.op = "save" =>
          /\ last'.arg \subseteq macros'
          /\ Keys(macros') = Keys(macros) \cup {last'.name}
          /\ \A e \in macros : e[1] # last'.name => e \in macros']_vars

C6_Witness ==
  /\ last.op = "save"
  /\ last.name \in last.had
  /\ Cardinality(Keys(macros)) >= 2

\* C7: an accepted import of the exported file into an empty registry
\* gives the registry the file was exported from.
C7_ExportImportRoundTrip ==
  [][(Accepted' /\ macros = {} /\ file.written) => macros' = exported]_vars

C7_Witness ==
  /\ Accepted
  /\ last.had = {}
  /\ macros = exported
  /\ Cardinality(macros) >= 2
  /\ \E e \in macros : "filename" \in DOMAIN e[2]

\* C8 as stated: a save leaves the durable store as it was.
C8_SaveLeavesStoreAlone ==
  [][last'.op = "save" => disk' = disk]_vars

\* C8 as amended: a save stores the entry in memory and, once the menu is
\* rebuilt, commits: the durable store then holds the registry in memory;
\* only when the rebuild of the menu raises is the commit not reached and
\* the durable store left as it was.
C8_SaveCommits ==
  [][last'.op = "save" =>
       /\ last'.arg \subseteq macros'
       /\ IF last'.raised
          THEN disk' = disk /\ ~Has(last'.events, "commit")
          ELSE disk' = commit(macros', current') /\ Has(last'.events, "commit")]_vars

C8_Witness ==
  /\ last.op = "save"
  /\ Has(last.events, "commit")
  /\ disk.macros = macros
  /\ last.arg \subseteq disk.macros

\* C9: when the current macro name is no key of the registry, the
\* top-level action executes nothing, reports nothing and changes neither
\* the registry nor the current macro name.
C9_StaleCurrentIsNoOp ==
  [][(last'.op = "top" /\ current \notin Keys(macros)) =>
       /\ last'.events = <<>>
       /\ ~last'.raised
       /\ macros' = macros
       /\ current' = current
       /\ disk' = disk
       /\ menuvars' = menuvars]_vars

C9_Witness ==
  /\ last.op = "top"
  /\ current \notin Keys(macros)
  /\ macros # {}

Rebuilt == Has(last.events, "rebuild_menu") /\ last.failure # "menu"

RanRecord == DictGet(macros, last.name)
RanFile ==
  /\ last.op \in {"menu", "top"}
  /\ "execfromfile" \in DOMAIN RanRecord
  /\ RanRecord.execfromfile
\* the text an execution took from the record or from the editor
RanText == IF last.op = "button" THEN last.detail ELSE RanRecord.program
Exec == Executed /\ Has(last.events, "exec")

\* C11 as stated: whenever the execution primitive is invoked, from the
\* inline program or from the file, get_encoding was called before it.
C11_DetectionBeforeEveryExec ==
  Exec => Before(last.events, "get_encoding", "exec")

\* C11 as amended: a text (the record's inline program, or the editor's
\* text at the execute button) goes through get_encoding before it is
\* executed, and is encoded in between exactly when an encoding is found;
\* a macro run from its file by execute_macro is opened and handed to the
\* execution primitive with neither get_encoding nor encode.
C11_DetectionOnTextNotOnFile ==
  Exec =>
    IF RanFile
    THEN /\ last.events[1] = "open" /\ last.events[2] = "exec"
         /\ ~Has(last.events, "get_encoding")
         /\ ~Has(last.events, "encode")
    ELSE /\ Before(last.events, "get_encoding", "exec")
         /\ IF get_encoding(RanText) # None
            THEN /\ Before(last.events, "get_encoding", "encode")
                 /\ Before(last.events, "encode", "exec")
            ELSE ~Has(last.events, "encode")

C11_Witness ==
  /\ Exec
  /\ RanFile
  /\ last.failure = "none"
  /\ last.events = <<"open", "exec">>

InPump == stack # <<>> /\ Top.pump /\ pending # <<>>
Begins(ev) == ev.op = "button" \/ Lookup(macros, ev.name) # {}

\* C12: nothing guards against re-entrance.  Whenever an execution is in
\* the event pump of a logging callback and a trigger waits, the next step
\* of the program takes that trigger and, when it is the execute button or
\* the menu action of a macro in the registry, begins its execution above
\* the executions in progress, which stay as they are.  Executions in
\* progress below the innermost one are execute button runs in their pump.
C12_PumpBeginsSecondExecution ==
  [][/\ (InPump /\ Len(pending') <= Len(pending)) =>
          /\ pending' = Tail(pending)
          /\ Begins(Head(pending)) =>
               /\ Len(stack') = Len(stack) + 1
               /\ SubSeq(stack', 1, Len(stack)) = stack
               /\ stack'[Len(stack')].op = Head(pending).op
               /\ stack'[Len(stack')].pc = "exec"
     /\ \A i \in 1..(Len(stack') - 1) :
          stack'[i].op = "button" /\ stack'[i].pump]_vars

\* three executions in progress at once: two from the execute button, and
\* a menu action's inside them
C12_Witness ==
  /\ Len(stack) = 3
  /\ stack[1].op = "button" /\ stack[1].pump
  /\ stack[2].op = "button" /\ stack[2].pump
  /\ stack[3].op = "menu" /\ stack[3].pc = "exec"

\* a save that returned, a delete that removed its entry, an import that
\* was accepted
Stored ==
  \/ last.op = "save" /\ ~last.raised
  \/ last.op = "delete" /\ Has(last.events, "delitem")
  \/ Accepted

\* C13: after a completed save, a successful delete or an accepted import
\* the menu holds one action for each macro name of the registry and no
\* other, and the action marked as current is the one of the current
\* macro name, none when that name is not in the registry.
C13_MenuInStepWithRegistry ==
  Stored =>
    /\ actions = Keys(macros)
    /\ marked = {n \in Keys(macros) : n = current}

====
